---- MODULE Spec2Model ----
(***************************************************************************)
(* Model of the PumpSwap dashboard: the Proxy Endpoint (GET /api/pumpswap) *)
(* and the Detail View (PumpSwapPage) that fetches it once on mount.       *)
(*                                                                         *)
(* JavaScript runs each continuation between two awaits to completion, and *)
(* the state setters called by one continuation are committed by React in  *)
(* one render, so every continuation is one action.                        *)
(*                                                                         *)
(* Optional values (a field that may be missing, a value that may be null) *)
(* are sequences of length 0 or 1: <<>> is absent/null, <<v>> is v.        *)
(* Percentage changes are counted in thousandths of a percent (-3456 is    *)
(* -3.456); USD amounts are whole dollars.                                 *)
(***************************************************************************)
EXTENDS Integers, Sequences, FiniteSets, TLC

VARIABLES
    proxyPc,        \* position of the GET handler
    upstream,       \* what the outbound fetch to api.llama.fi produced
    upstreamCalls,  \* number of outbound fetches issued by the handler
    proxyResp,      \* the NextResponse returned by the handler
    serverLog,      \* the errors console.error printed on the server
    pc,             \* position of the Detail View's fetchData
    fetchCount,     \* number of fetch("/api/pumpswap") calls issued by the view
    response,       \* the Response the view's fetch resolved with
    data,           \* useState<PumpSwapData | null>
    chartData,      \* useState<ChartDataPoint[]>
    loading,        \* useState(true)
    error,          \* useState<string | null>
    activeTab,      \* useState("tvl")
    clientLog       \* the errors console.error printed in the browser

vars == <<proxyPc, upstream, upstreamCalls, proxyResp, serverLog, pc, fetchCount,
          response, data, chartData, loading, error, activeTab, clientLog>>

proxyVars == <<proxyPc, upstream, upstreamCalls, proxyResp, serverLog>>

viewVars == <<pc, fetchCount, response, data, chartData, loading, error,
              activeTab, clientLog>>

(***************************************************************************)
(* JSON values                                                             *)
(***************************************************************************)
Null == <<>>

JNull == [kind |-> "null"]

JZero == [kind |-> "number", val |-> 0]

\* A body that JSON.parse rejects
Malformed == [kind |-> "malformed"]

ProxyErrorMessage == "Failed to fetch data from DefiLlama"

\* The JSON document { error: "Failed to fetch data from DefiLlama" }
ErrorBody == [kind |-> "errorObject", error |-> ProxyErrorMessage]

ViewErrorMessage == "Failed to load PumpSwap data"

Solana == << [chain |-> "Solana", value |-> 500000] >>

TwoChains == << [chain |-> "Solana", value |-> 500000],
                [chain |-> "Base", value |-> 1234] >>

\* The PumpSwapData objects the upstream may send. description and category
\* are printed as they come and are left out.
Snapshots ==
    [kind : {"object"},
     name : {Null, <<"PumpSwap">>},
     tvl : {Null, <<0>>, <<1234567>>},
     change_1d : {Null, <<0>>, <<-3456>>, <<1250>>},
     change_7d : {Null, <<7>>},
     change_1m : {Null, <<-120004>>},
     chainTvls : {Null, << <<>> >>, <<Solana>>, <<TwoChains>>}]

\* The documents the upstream may send with a 2xx status
JsonValues == {JNull, JZero, ErrorBody} \cup Snapshots

Bodies == JsonValues \cup {Malformed}

Statuses == {200, 201, 404, 500}

NoResponse == [kind |-> "none"]

\* response.ok
ResponseOk(status) == status \in 200..299

Tabs == {"tvl", "volume", "fees", "revenue"}

\* What await fetch(...) throws when the request fails
NetworkError == [name |-> "TypeError", message |-> "fetch failed"]

\* What await response.json() throws
ParseError == [name |-> "SyntaxError", message |-> "invalid JSON"]

\* new Error(`Failed to fetch data: ${response.status}`)
StatusError(status) == [name |-> "Error", message |-> "Failed to fetch data", status |-> status]

\* new Error("Failed to fetch data")
FetchDataError == [name |-> "Error", message |-> "Failed to fetch data"]

(***************************************************************************)
(* Proxy Endpoint: GET                                                     *)
(***************************************************************************)
\* Mutant of ProxySuccess: the document is wrapped, NextResponse.json({ data })
ProxySuccessWrapped(body) ==
    [kind |-> "response", status |-> 200, body |-> [kind |-> "wrapper", data |-> body]]

\* return NextResponse.json(data)
ProxySuccess(body) == [kind |-> "response", status |-> 200, body |-> body]

\* Mutant of ProxyCatch: the { status: 500 } argument is left out
ProxyCatchDefaultStatus == [kind |-> "response", status |-> 200, body |-> ErrorBody]

\* catch (error) { console.error(...); return NextResponse.json({error}, {status: 500}) }
ProxyCatch == [kind |-> "response", status |-> 500, body |-> ErrorBody]

\* The handler is invoked by the view's request and issues the outbound fetch
ProxyGET ==
    /\ pc = "fetching"
    /\ proxyPc = "idle"
    /\ proxyPc' = "fetching"
    /\ upstreamCalls' = upstreamCalls + 1
    /\ UNCHANGED <<upstream, proxyResp, serverLog>>
    /\ UNCHANGED viewVars

\* await fetch(...) throws (network failure): control passes to the catch
UpstreamReject ==
    /\ proxyPc = "fetching"
    /\ upstream' = [kind |-> "exception"]
    /\ proxyResp' = ProxyCatch
    /\ serverLog' = Append(serverLog, NetworkError)
    /\ proxyPc' = "responded"
    /\ UNCHANGED upstreamCalls
    /\ UNCHANGED viewVars

\* await fetch(...) resolves; if (!response.ok) throw
UpstreamRespond ==
    /\ proxyPc = "fetching"
    /\ \E s \in Statuses, b \in Bodies :
        /\ upstream' = [kind |-> "response", status |-> s, body |-> b]
        /\ IF ResponseOk(s)
              THEN /\ proxyPc' = "parsing"
                   /\ UNCHANGED <<proxyResp, serverLog>>
              ELSE /\ proxyResp' = ProxyCatch
                   /\ serverLog' = Append(serverLog, StatusError(s))
                   /\ proxyPc' = "responded"
    /\ UNCHANGED upstreamCalls
    /\ UNCHANGED viewVars

\* await response.json() settles; return NextResponse.json(data)
ProxyJson ==
    /\ proxyPc = "parsing"
    /\ IF upstream.body = Malformed
          THEN /\ proxyResp' = ProxyCatch
               /\ serverLog' = Append(serverLog, ParseError)
          ELSE /\ proxyResp' = ProxySuccess(upstream.body)
               /\ UNCHANGED serverLog
    /\ proxyPc' = "responded"
    /\ UNCHANGED <<upstream, upstreamCalls>>
    /\ UNCHANGED viewVars

(***************************************************************************)
(* Detail View: PumpSwapPage                                               *)
(***************************************************************************)
\* useEffect(() => { fetchData() }, []): runs once after the first render
Mount ==
    /\ pc = "mounted"
    /\ pc' = "fetching"
    /\ fetchCount' = fetchCount + 1
    /\ UNCHANGED <<response, data, chartData, loading, error, activeTab, clientLog>>
    /\ UNCHANGED proxyVars

\* Mutant of ViewCatch: the failure schedules the effect again (a retry)
ViewCatchRetry(err) ==
    /\ error' = <<ViewErrorMessage>>
    /\ clientLog' = Append(clientLog, err)
    /\ loading' = FALSE
    /\ pc' = "mounted"
    /\ UNCHANGED <<data, chartData, activeTab, fetchCount>>

\* Mutant of ViewCatch: there is no finally block, loading stays set
ViewCatchNoFinally(err) ==
    /\ error' = <<ViewErrorMessage>>
    /\ clientLog' = Append(clientLog, err)
    /\ pc' = "done"
    /\ UNCHANGED <<data, chartData, activeTab, fetchCount, loading>>

\* catch (err) { setError(...); console.error(err) } finally { setLoading(false) }
ViewCatch(err) ==
    /\ error' = <<ViewErrorMessage>>
    /\ clientLog' = Append(clientLog, err)
    /\ loading' = FALSE
    /\ pc' = "done"
    /\ UNCHANGED <<data, chartData, activeTab, fetchCount>>

\* await fetch("/api/pumpswap") resolves with the handler's response
FetchResolve ==
    /\ pc = "fetching"
    /\ proxyPc = "responded"
    /\ response' = proxyResp
    /\ IF ResponseOk(proxyResp.status)
          THEN /\ pc' = "parsing"
               /\ UNCHANGED <<data, chartData, loading, error, activeTab,
                              fetchCount, clientLog>>
          ELSE ViewCatch(FetchDataError)
    /\ UNCHANGED proxyVars

\* await fetch("/api/pumpswap") throws (the request never completes)
FetchReject ==
    /\ pc = "fetching"
    /\ ViewCatch(NetworkError)
    /\ UNCHANGED response
    /\ UNCHANGED proxyVars

\* Mutant of JsonResolve: setData(result) is left out
JsonResolveNoSetData ==
    /\ pc = "parsing"
    /\ loading' = FALSE
    /\ pc' = "done"
    /\ UNCHANGED <<data, chartData, error, activeTab, fetchCount, response, clientLog>>
    /\ UNCHANGED proxyVars

\* Mutant of JsonResolve: the chart-point list is filled from the result
JsonResolveFillsChart ==
    /\ pc = "parsing"
    /\ data' = response.body
    /\ chartData' = << [date |-> 1700000000, totalLiquidityUSD |-> 1234567] >>
    /\ loading' = FALSE
    /\ pc' = "done"
    /\ UNCHANGED <<error, activeTab, fetchCount, response, clientLog>>
    /\ UNCHANGED proxyVars

\* const result = await response.json(); setData(result); finally setLoading(false)
JsonResolve ==
    /\ pc = "parsing"
    /\ data' = response.body
    /\ loading' = FALSE
    /\ pc' = "done"
    /\ UNCHANGED <<chartData, error, activeTab, fetchCount, response, clientLog>>
    /\ UNCHANGED proxyVars

\* await response.json() throws (the body stream breaks off)
JsonReject ==
    /\ pc = "parsing"
    /\ ViewCatch(ParseError)
    /\ UNCHANGED response
    /\ UNCHANGED proxyVars

(***************************************************************************)
(* Formatting                                                              *)
(***************************************************************************)
DigitChars == <<"0", "1", "2", "3", "4", "5", "6", "7", "8", "9">>

RECURSIVE NatToString(_)
\* The decimal digits of a natural number
NatToString(n) ==
    IF n < 10 THEN DigitChars[n + 1]
    ELSE NatToString(n \div 10) \o DigitChars[(n % 10) + 1]

\* n as exactly two digits, n < 100
Pad2(n) == DigitChars[(n \div 10) + 1] \o DigitChars[(n % 10) + 1]

\* n as exactly three digits, n < 1000
Pad3(n) == DigitChars[(n \div 100) + 1] \o Pad2(n % 100)

RECURSIVE Grouped(_)
\* en-US digit grouping: a comma before every group of three digits
Grouped(n) ==
    IF n < 1000 THEN NatToString(n)
    ELSE Grouped(n \div 1000) \o "," \o Pad3(n % 1000)

\* Intl.NumberFormat("en-US", {style: "currency", currency: "USD",
\* maximumFractionDigits: 0}).format(value), value in whole dollars
formatCurrency(value) ==
    IF value < 0 THEN "-$" \o Grouped(0 - value) ELSE "$" \o Grouped(value)

\* Number.prototype.toFixed(2) of m thousandths: the nearest hundredth of the
\* magnitude, the sign in front. The change values of Snapshots have no digit
\* 5 in the thousandths, where the binary value decides the rounding.
toFixed2(m) ==
    LET mag == IF m < 0 THEN 0 - m ELSE m
        n == (mag + 5) \div 10
    IN  (IF m < 0 THEN "-" ELSE "") \o NatToString(n \div 100) \o "." \o Pad2(n % 100)

(***************************************************************************)
(* Rendering: the JSX returned by PumpSwapPage, as a function of the state *)
(***************************************************************************)
\* Mutant of Truthy: the test is data !== null
TruthyNotNull(v) == v.kind # "null"

\* JavaScript truthiness of a parsed JSON document
Truthy(v) ==
    CASE v.kind = "null" -> FALSE
      [] v.kind = "number" -> v.val # 0
      [] OTHER -> TRUE

\* JavaScript truthiness of an optional number: undefined and 0 are falsy
TruthyNumber(opt) == opt # Null /\ opt[1] # 0

\* data.<field>: undefined unless the document is a snapshot that has it
Field(d, f) == IF d.kind = "object" THEN d[f] ELSE Null

\* <h1>{data.name}</h1> and {data.tvl && (<div>... formatCurrency(data.tvl) ...</div>)}
\* React prints the number 0 that `0 && ...` evaluates to
Header(d) ==
    LET tvl == Field(d, "tvl")
    IN  [name |-> Field(d, "name"),
         tvlBlock |-> IF TruthyNumber(tvl) THEN <<formatCurrency(tvl[1])>> ELSE Null,
         stray |-> IF tvl # Null /\ tvl[1] = 0 THEN <<"0">> ELSE Null]

\* The four tab buttons: the active one is highlighted
TabButtons(tab) == [t \in Tabs |-> IF tab = t THEN "bg-green-600" ELSE "bg-gray-200"]

ChartWindow == 30

\* prepareChartData: chartData.slice(-30)
prepareChartData(chart) ==
    IF Len(chart) <= ChartWindow THEN chart
    ELSE SubSeq(chart, Len(chart) - ChartWindow + 1, Len(chart))

\* {chartData.length > 0 ? <Line .../> : <p>No chart data available</p>}
ChartArea(chart, tab) ==
    IF Len(chart) > 0
       THEN [kind |-> "Line", points |-> prepareChartData(chart)]
       ELSE [kind |-> "placeholder", text |-> "No chart data available"]

\* One Performance badge
Badge(change) ==
    [color |-> IF TruthyNumber(change) /\ change[1] >= 0 THEN "green" ELSE "red",
     text |-> IF TruthyNumber(change) THEN toFixed2(change[1]) \o "%" ELSE "N/A"]

Badges(d) ==
    [h24 |-> Badge(Field(d, "change_1d")),
     d7 |-> Badge(Field(d, "change_7d")),
     d30 |-> Badge(Field(d, "change_1m"))]

\* {data.chainTvls && Object.keys(data.chainTvls).length > 0 && (...)}
ChainGrid(d) ==
    LET chains == Field(d, "chainTvls")
    IN  IF chains # Null /\ Len(chains[1]) > 0
           THEN << [i \in 1..Len(chains[1]) |->
                      [chain |-> chains[1][i].chain,
                       value |-> formatCurrency(chains[1][i].value)]] >>
           ELSE Null

\* The ready layout
Layout(d, chart, tab) ==
    [view |-> "layout",
     header |-> Header(d),
     tabs |-> TabButtons(tab),
     chart |-> ChartArea(chart, tab),
     badges |-> Badges(d),
     chainGrid |-> ChainGrid(d)]

\* {loading ? ... : error ? ... : data ? ... : <p>No data available</p>}
RenderOf(l, e, d, chart, tab) ==
    IF l THEN [view |-> "loading", text |-> "Loading data..."]
    ELSE IF e # Null /\ e[1] # "" THEN [view |-> "error", text |-> e[1]]
    ELSE IF Truthy(d) THEN Layout(d, chart, tab)
    ELSE [view |-> "nodata", text |-> "No data available"]

Render == RenderOf(loading, error, data, chartData, activeTab)

\* Mutant of SetActiveTab: the click also drops the snapshot
SetActiveTabResetsData(t) ==
    /\ Render.view = "layout"
    /\ activeTab' = t
    /\ data' = JNull
    /\ UNCHANGED <<pc, fetchCount, response, chartData, loading, error, clientLog>>
    /\ UNCHANGED proxyVars

\* onClick={() => setActiveTab(t)} of a tab button; the buttons are part of
\* the ready layout
SetActiveTab(t) ==
    /\ Render.view = "layout"
    /\ activeTab' = t
    /\ UNCHANGED <<pc, fetchCount, response, data, chartData, loading, error, clientLog>>
    /\ UNCHANGED proxyVars

SelectTab == \E t \in Tabs : SetActiveTab(t)

Init ==
    /\ proxyPc = "idle"
    /\ upstream = NoResponse
    /\ upstreamCalls = 0
    /\ proxyResp = NoResponse
    /\ serverLog = <<>>
    /\ pc = "mounted"
    /\ fetchCount = 0
    /\ response = NoResponse
    /\ data = JNull
    /\ chartData = <<>>
    /\ loading = TRUE
    /\ error = Null
    /\ activeTab = "tvl"
    /\ clientLog = <<>>

Next ==
    \/ ProxyGET
    \/ UpstreamReject
    \/ UpstreamRespond
    \/ ProxyJson
    \/ Mount
    \/ FetchResolve
    \/ FetchReject
    \/ JsonResolve
    \/ JsonReject
    \/ SelectTab

Spec == Init /\ [][Next]_vars

(***************************************************************************)
(* Properties                                                              *)
(***************************************************************************)
\* The outbound call failed: it threw, answered with a non-2xx status, or
\* answered 2xx with a body that is not JSON
UpstreamFailed ==
    \/ upstream.kind = "exception"
    \/ /\ upstream.kind = "response"
       /\ (~(upstream.status \in 200..299) \/ upstream.body = Malformed)

\* The outbound call answered 2xx with a JSON document
UpstreamSucceeded ==
    /\ upstream.kind = "response"
    /\ upstream.status \in 200..299
    /\ upstream.body # Malformed

\* C1: whenever the upstream call failed (non-2xx status, network exception
\* or unparsable 2xx body), the handler's response is exactly the body
\* { error: "Failed to fetch data from DefiLlama" } with status 500.
C1_FailureGivesErrorEnvelope ==
    (proxyPc = "responded" /\ UpstreamFailed) =>
        /\ proxyResp.status = 500
        /\ proxyResp.body = [kind |-> "errorObject",
                             error |-> "Failed to fetch data from DefiLlama"]

C1_Witness ==
    /\ proxyPc = "responded"
    /\ upstream.kind = "response"
    /\ upstream.status = 200
    /\ upstream.body = Malformed

\* C2: whenever the upstream answered 2xx with a JSON document B, the
\* handler's response carries B itself with a 2xx status, and is not the
\* status-500 error response.
C2_SuccessPassesBodyThrough ==
    (proxyPc = "responded" /\ UpstreamSucceeded) =>
        /\ proxyResp.body = upstream.body
        /\ proxyResp.status \in 200..299
        /\ proxyResp # [kind |-> "response", status |-> 500,
                        body |-> [kind |-> "errorObject",
                                  error |-> "Failed to fetch data from DefiLlama"]]

C2_Witness ==
    /\ proxyPc = "responded"
    /\ UpstreamSucceeded
    /\ upstream.body \in Snapshots
    /\ upstream.body.tvl = <<1234567>>

\* The observable state of the Detail View
ViewState ==
    IF loading THEN "loading"
    ELSE IF error # Null THEN "error"
    ELSE "ready"

\* C3: the Detail View starts in loading, issues its only fetch on mount,
\* leaves loading for error (non-ok status or thrown exception) or for ready
\* (response parsed), and after that no step, tab clicks included, changes
\* its observable state or issues another fetch.
C3_OneShot ==
    /\ ViewState = "loading"
    /\ fetchCount = 0
    /\ [][/\ (fetchCount' # fetchCount =>
                 fetchCount = 0 /\ fetchCount' = 1 /\ pc = "mounted")
          /\ (ViewState # "loading" =>
                 /\ ViewState' = ViewState
                 /\ fetchCount' = 1
                 /\ data' = data
                 /\ error' = error)
          /\ (ViewState = "loading" /\ ViewState' = "ready" =>
                 /\ pc = "parsing"
                 /\ response.status \in 200..299
                 /\ data' = response.body)
          /\ (ViewState = "loading" /\ ViewState' = "error" =>
                 /\ pc \in {"fetching", "parsing"}
                 /\ data' = JNull)]_vars

C3_Witness ==
    /\ ViewState = "ready"
    /\ activeTab = "fees"
    /\ fetchCount = 1

\* What is on the page when only the error message is shown
ErrorPage == [view |-> "error", text |-> "Failed to load PumpSwap data"]

\* The upstream answered 2xx with a snapshot object
UpstreamSnapshot == UpstreamSucceeded /\ upstream.body \in Snapshots

\* The view is ready and shows the layout: the header with the snapshot's
\* name and TVL slot, and the three badges
ShowsSnapshot(d) ==
    /\ ViewState = "ready"
    /\ data = d
    /\ Render.view = "layout"
    /\ Render.header.name = d.name
    /\ DOMAIN Render.header = {"name", "tvlBlock", "stray"}
    /\ DOMAIN Render.badges = {"h24", "d7", "d30"}

\* C4 as stated: once the view's fetch has completed, an upstream failure
\* means the error message is all the page shows, and an upstream success
\* with a snapshot means the ready layout is shown.
C4_EndToEnd_Original ==
    pc = "done" =>
        /\ (UpstreamFailed => ViewState = "error" /\ Render = ErrorPage)
        /\ (UpstreamSnapshot => ShowsSnapshot(upstream.body))

\* The view's own request to the Proxy Endpoint, or the reading of its body,
\* failed in transit
TransportFailed ==
    \E i \in 1..Len(clientLog) : clientLog[i] \in {NetworkError, ParseError}

\* C4 amended: an upstream failure always ends in the error page; an
\* upstream success with a snapshot ends in the ready layout provided the
\* view's own request to the Proxy Endpoint did not fail in transit, and in
\* the error page otherwise.
C4_EndToEnd ==
    pc = "done" =>
        /\ (UpstreamFailed => ViewState = "error" /\ Render = ErrorPage)
        /\ (UpstreamSnapshot /\ ~TransportFailed => ShowsSnapshot(upstream.body))
        /\ (TransportFailed => ViewState = "error" /\ Render = ErrorPage)

C4_Witness ==
    /\ pc = "done"
    /\ UpstreamSnapshot
    /\ ~TransportFailed
    /\ Render.view = "layout"
    /\ Render.header.name = <<"PumpSwap">>
    /\ Render.header.tvlBlock = <<"$1,234,567">>

\* What the claim asks of one badge
BadgeAsClaimed(change, badge) ==
    IF change = Null
       THEN badge.text = "N/A" /\ badge.color = "red"
       ELSE /\ badge.color = (IF change[1] >= 0 THEN "green" ELSE "red")
            /\ badge.text = toFixed2(change[1]) \o "%"
            /\ badge.text # "N/A"

\* C5: each badge is green when its change value is present and >= 0, red
\* when present and < 0, shows the number with a trailing "%" when present,
\* and shows "N/A" (red) only when the value is absent.
C5_Badges ==
    (Render.view = "layout" /\ data \in Snapshots) =>
        /\ BadgeAsClaimed(data.change_1d, Render.badges.h24)
        /\ BadgeAsClaimed(data.change_7d, Render.badges.d7)
        /\ BadgeAsClaimed(data.change_1m, Render.badges.d30)

\* The empty object {}
EmptyObject ==
    [kind |-> "object", name |-> Null, tvl |-> Null, change_1d |-> Null,
     change_7d |-> Null, change_1m |-> Null, chainTvls |-> Null]

NoDataPage == [view |-> "nodata", text |-> "No data available"]

\* The fetch has resolved and its body was parsed
FetchSucceeded == pc = "done" /\ error = Null

\* C6 as stated: a successfully fetched snapshot that is falsy or empty
\* (null, {}) shows "No data available" and nothing of the layout.
C6_NoData_Original ==
    (FetchSucceeded /\ data \in {JNull, JZero, EmptyObject}) => Render = NoDataPage

\* C6 amended: a successfully fetched snapshot that is falsy (null, 0) shows
\* "No data available" and nothing of the layout; the empty object {} is
\* truthy and gets the ready layout with an empty header and N/A badges.
C6_NoData ==
    /\ (FetchSucceeded /\ data \in {JNull, JZero}) => Render = NoDataPage
    /\ (FetchSucceeded /\ data = EmptyObject) =>
           /\ Render.view = "layout"
           /\ Render.header = [name |-> Null, tvlBlock |-> Null, stray |-> Null]
           /\ Render.badges.h24.text = "N/A"
           /\ Render.chainGrid = Null

C6_Witness ==
    /\ FetchSucceeded
    /\ response.status = 200
    /\ data = JNull
    /\ Render = NoDataPage

\* C7: in the ready layout the header shows the formatted currency value of
\* tvl whenever tvl is present, 0 included, and no TVL value when it is absent.
C7_HeaderTvl ==
    (Render.view = "layout" /\ data \in Snapshots) =>
        IF data.tvl # Null
           THEN /\ Render.header.tvlBlock = <<formatCurrency(data.tvl[1])>>
                /\ Render.header.stray = Null
           ELSE /\ Render.header.tvlBlock = Null
                /\ Render.header.stray = Null

\* C8: the chart-point list is empty in every reachable state, so the ready
\* layout always shows the "No chart data available" placeholder and the
\* chart renderer is never invoked.
C8_ChartNeverPopulated ==
    /\ chartData = <<>>
    /\ Render.view = "layout" =>
           Render.chart = [kind |-> "placeholder", text |-> "No chart data available"]

C8_Witness ==
    /\ pc = "done"
    /\ Render.view = "layout"
    /\ data \in Snapshots
    /\ Render.chart.kind = "placeholder"

\* Everything of the ready layout but the tab buttons
LayoutBody(tab) ==
    LET l == Layout(data, chartData, tab)
    IN  <<l.header, l.chart, l.badges, l.chainGrid>>

\* C9: a tab selection sets activeTab to one of the four labels and changes
\* nothing else (snapshot, chart points, loading, error, no new fetch), and
\* what the layout shows besides the tab buttons is the same for every tab.
C9_TabChangesOnlyHighlight ==
    /\ [](\A t \in Tabs : LayoutBody(t) = LayoutBody(activeTab))
    /\ [][activeTab' # activeTab =>
            /\ activeTab' \in Tabs
            /\ UNCHANGED <<data, chartData, loading, error, fetchCount, pc,
                           response, clientLog, proxyVars>>]_vars

C9_Witness ==
    /\ activeTab = "revenue"
    /\ Render.view = "layout"
    /\ Render.tabs["revenue"] = "bg-green-600"
    /\ Render.tabs["tvl"] = "bg-gray-200"

\* C10: error and snapshot are never both set, both are null while loading
\* is true, and once the fetch has completed loading is false.
C10_ErrorXorData ==
    /\ ~(error # Null /\ data # JNull)
    /\ (loading => error = Null /\ data = JNull)
    /\ (pc = "done" => ~loading)

C10_Witness ==
    /\ pc = "done"
    /\ error = <<ViewErrorMessage>>
    /\ data = JNull
    /\ ~loading

====
